---- MODULE Spec2Model ----
(***************************************************************************)
(* Model of src/app.py: a Dash dashboard that downloads the OWID COVID     *)
(* dataset at most once per calendar day (download_if_needed), loads it    *)
(* into a dataframe at import time and redraws a multi-country line chart  *)
(* on every change of the country selector (update_chart).                 *)
(*                                                                         *)
(* The file system (download_log.txt and covid_data/) is shared by every   *)
(* run of the script.  A slot p of Procs holds one run of the script at a  *)
(* time; when that run ends (Exit) the next run may start in the slot.     *)
(***************************************************************************)
EXTENDS Integers, Sequences, FiniteSets, TLC

\* ---------------------------------------------------------------- bounds
NumProcs == 2       \* runs of the script that may overlap
NumDays == 2        \* calendar days the clock passes through
FirstDay == 9       \* day of the month of the first day (labels "09", "10")
MaxRows == 3        \* rows of a CSV file drawn for the renderer
MaxSel == 2         \* length of a selection sent by the dropdown

Procs == 1..NumProcs
Days == FirstDay..(FirstDay + NumDays - 1)

\* ------------------------------------------------------------ CSV content
\* float NaN: an empty total_cases cell after pd.read_csv
NaN == -1
\* Python None: last_valid_index() of an empty frame
None == -1

DEFAULT_COUNTRIES == <<"US">>
Locations == {"A", "US"}
\* every name a callback request may carry, in alphabetical order; Z is a
\* name that no CSV row carries
Names == <<"A", "US", "Z">>
Dates == {1, 2, 3}
Metrics == {1, 2}

\* the rows a CSV file drawn for the renderer is made of
RawRows == [date : Dates, location : Locations, total_cases : Metrics]

\* two response bodies the server may return on the same day (the data
\* set is republished during the day); one CSV row stands for one block
\* of the body
BodyA == << [date |-> 1, location |-> "A", total_cases |-> 1] >>
BodyB == << [date |-> 1, location |-> "US", total_cases |-> 1],
            [date |-> 2, location |-> "US", total_cases |-> NaN],
            [date |-> 3, location |-> "US", total_cases |-> 2] >>
Bodies == {BodyA, BodyB}

NoResponse == [status |-> 0, content |-> << >>]
Responses == [status : {200}, content : Bodies]
               \cup [status : {404, 500}, content : {<< >>}]

\* ------------------------------------------------------- text of the log
Digit(n) == <<"0", "1", "2", "3", "4", "5", "6", "7", "8", "9">>[n + 1]

\* datetime.today().strftime("%Y-%m-%d"), as a sequence of characters;
\* the year and month are one fixed field, the day is two digits
strftime(d) == <<"2024-01-", Digit((d \div 10) % 10), Digit(d % 10)>>

Labels == {strftime(d) : d \in Days}

\* os.path.join(DATA_FOLDER, f"owid-covid-data_{today}.csv")
filepath(t) == <<"covid_data/owid-covid-data_">> \o t \o <<".csv">>

FilePaths == {filepath(t) : t \in Labels}

\* f"{today} - Downloaded\n"
LogLine(t) == t \o <<" - Downloaded", "\n">>

\* Python's  pat in text  on strings
Contains(text, pat) ==
    \E i \in 0..(Len(text) - Len(pat)) : SubSeq(text, i + 1, i + Len(pat)) = pat

\* a test for a log that holds the label and nothing else
AlreadyDownloadedExact(exists, text, t) == exists /\ text = t
\* lines 26-28: the log exists and today's label is a substring of it
AlreadyDownloaded(exists, text, t) == exists /\ Contains(text, t)

\* the log opened with "w"
LogOverwrite(text, line) == line
\* open(LOG_FILE, "a").write(line)
LogAppend(text, line) == text \o line

\* the status is not looked at
never_raises(status) == FALSE
\* requests' Response.raise_for_status(): raises for 4xx and 5xx
raise_for_status(status) == status >= 400 /\ status < 600

\* f.write(r.content) through a descriptor opened at offset 0: the bytes
\* replace the head of the file, what lies beyond them stays
WriteAtStart(data, content) ==
    content \o SubSeq(data, Len(content) + 1, Len(data))

Occurrences(text, pat) ==
    Cardinality({i \in 0..(Len(text) - Len(pat)) :
                    SubSeq(text, i + 1, i + Len(pat)) = pat})

IsPrefix(s, t) == Len(s) <= Len(t) /\ SubSeq(t, 1, Len(s)) = s

\* ------------------------------------------------------------ the Loader
\* pd.read_csv: the frame gets the RangeIndex 0..n-1 as its row labels
read_csv(data) ==
    [i \in 1..Len(data) |->
        [idx |-> i - 1, date |-> data[i].date, location |-> data[i].location,
         total_cases |-> data[i].total_cases]]

notna(row) == row.total_cases # NaN

\* df = df[df[METRIC].notna()]: the rows kept keep their labels
load_frame(data) == SelectSeq(read_csv(data), notna)

\* ---------------------------------------------------------- the Renderer
InsertByDate(row, sorted) ==
    LET k == Cardinality({i \in 1..Len(sorted) : sorted[i].date <= row.date})
    IN  SubSeq(sorted, 1, k) \o <<row>> \o SubSeq(sorted, k + 1, Len(sorted))

RECURSIVE sort_values(_)
\* DataFrame.sort_values("date"), ascending
sort_values(rows) ==
    IF rows = << >> THEN << >>
    ELSE InsertByDate(rows[Len(rows)], sort_values(SubSeq(rows, 1, Len(rows) - 1)))

\* Series.diff(): the first row has no difference (NaN)
diff(rows) ==
    [i \in 1..Len(rows) |->
        IF i = 1 THEN [valid |-> FALSE, value |-> 0]
        ELSE [valid |-> TRUE,
              value |-> rows[i].total_cases - rows[i - 1].total_cases]]

\* df[df["location"] == country].sort_values("date"), with the delta column
country_df(df, country) ==
    LET rows == sort_values(SelectSeq(df, LAMBDA r : r.location = country))
        delta == diff(rows)
    IN  [i \in 1..Len(rows) |->
            [idx |-> rows[i].idx, date |-> rows[i].date,
             total_cases |-> rows[i].total_cases, delta |-> delta[i]]]

\* NaN > 0 is False
positive_delta(row) == row.delta.valid /\ row.delta.value > 0

\* DataFrame.last_valid_index(): the label of the last row, None if empty
last_valid_index(frame) ==
    IF frame = << >> THEN None ELSE frame[Len(frame)].idx

\* the truth value Python gives  if last_increase_idx:  (None and 0 are false)
truthy(label) == label # None /\ label # 0

\* country_df.loc[label]
loc(frame, label) == CHOOSE r \in {frame[i] : i \in 1..Len(frame)} : r.idx = label

line_trace(cdf, country) ==
    [mode |-> "lines", name |-> <<country>>,
     x |-> [i \in 1..Len(cdf) |-> cdf[i].date],
     y |-> [i \in 1..Len(cdf) |-> cdf[i].total_cases],
     showlegend |-> TRUE]

marker_trace(row) ==
    [mode |-> "markers", name |-> << >>,
     x |-> <<row.date>>, y |-> <<row.total_cases>>, showlegend |-> FALSE]

annotation(row, country) ==
    [x |-> row.date, y |-> row.total_cases,
     text |-> <<"Reporting stopped for ", country>>]

\* one pass of the loop body of update_chart
add_country(fig, df, country) ==
    LET cdf == country_df(df, country)
        withLine == [fig EXCEPT !.traces = Append(@, line_trace(cdf, country))]
        last_increase_idx == last_valid_index(SelectSeq(cdf, positive_delta))
    IN  IF truthy(last_increase_idx)
        THEN LET row == loc(cdf, last_increase_idx)
             IN  [withLine EXCEPT !.traces = Append(@, marker_trace(row)),
                                  !.annotations = Append(@, annotation(row, country))]
        ELSE withLine

\* the selected names in the order of the sorted country list
alphabetical(sel) ==
    SelectSeq(Names, LAMBDA n : \E i \in 1..Len(sel) : sel[i] = n)
\* for country in selected_countries
iteration_order(sel) == sel

RECURSIVE add_countries(_, _, _)
add_countries(fig, df, sel) ==
    IF sel = << >> THEN fig
    ELSE add_countries(add_country(fig, df, Head(sel)), df, Tail(sel))

\* what the graph holds before the callback has answered
NoFigure ==
    [traces |-> << >>, annotations |-> << >>, layout |-> "unset",
     title |-> << >>, error |-> FALSE]

\* go.Figure()
go_Figure == [NoFigure EXCEPT !.layout = "default"]

\* the callback raised: no figure is returned
Raised == [NoFigure EXCEPT !.layout = "none", !.error = TRUE]

min_date(df) == CHOOSE d \in {df[i].date : i \in 1..Len(df)} :
                    \A i \in 1..Len(df) : d <= df[i].date
max_date(df) == CHOOSE d \in {df[i].date : i \in 1..Len(df)} :
                    \A i \in 1..Len(df) : d >= df[i].date

\* lines 80-139: Timestamp.min() of an empty column is NaT, whose strftime
\* raises
draw(df, selected_countries) ==
    IF df = << >> THEN Raised
    ELSE [add_countries(go_Figure, df, iteration_order(selected_countries))
            EXCEPT !.layout = "dark", !.title = <<min_date(df), max_date(df)>>]

\* update_chart without the test of line 77
update_chart_unguarded(df, selected_countries) == draw(df, selected_countries)
\* update_chart, lines 76-139
update_chart(df, selected_countries) ==
    IF selected_countries = << >> THEN go_Figure
    ELSE draw(df, selected_countries)

NameSet == {Names[i] : i \in 1..Len(Names)}
Distinct(s) == \A i, j \in 1..Len(s) : i # j => s[i] # s[j]
\* a callback request carries a list of distinct names
Selections ==
    {s \in UNION {[1..n -> NameSet] : n \in 0..MaxSel} : Distinct(s)}

\* line 44: the distinct locations of the frame
countries(frame) == {frame[i].location : i \in 1..Len(frame)}

\* lines 59-65: the dropdown starts at DEFAULT_COUNTRIES and then offers
\* the countries of the loaded frame (multi=True)
DropdownValues(frame) ==
    {DEFAULT_COUNTRIES} \cup
        {s \in Selections : \A i \in 1..Len(s) : s[i] \in countries(frame)}

\* ------------------------------------------------------------------ state
VARIABLES
    clock,          \* the calendar day (day of the month)
    folderExists,   \* covid_data/ exists
    logExists,      \* download_log.txt exists
    logText,        \* its contents
    fileExists,     \* per cache file path: the file exists
    fileData,       \* per cache file path: its contents
    pc,             \* per run: where the script stands
    today,          \* per run: the module-level  today
    r,              \* per run: the response held by download_if_needed
    df,             \* per run: the module-level  df
    selected,       \* per run: the value last sent by the dropdown
    figure,         \* per run: the figure last returned by update_chart
    gets,           \* per run: GET requests issued
    fetcherRuns,    \* per run: calls of download_if_needed begun
    loaderRuns,     \* per run: executions of lines 41-44 begun
    prior,          \* per run: how an earlier call for the same day had ended
                    \*          when this one began ("none", "raised", "returned")
    ended,          \* per day label: "none", "raised" or "returned", the best
                    \*          end of a call of download_if_needed so far
    lastWritten,    \* per cache file path: the bytes of the latest f.write
    downloads       \* per day label: calls that ran through line 36

fs == <<folderExists, logExists, logText, fileExists, fileData>>
hist == <<gets, fetcherRuns, loaderRuns, prior, ended, lastWritten, downloads>>
vars == <<clock, fs, pc, today, r, df, selected, figure, hist>>

NoDay == << >>

InitRun ==
    /\ pc = [p \in Procs |-> "idle"]
    /\ today = [p \in Procs |-> NoDay]
    /\ r = [p \in Procs |-> NoResponse]
    /\ df = [p \in Procs |-> << >>]
    /\ selected = [p \in Procs |-> << >>]
    /\ figure = [p \in Procs |-> NoFigure]
    /\ gets = [p \in Procs |-> 0]
    /\ fetcherRuns = [p \in Procs |-> 0]
    /\ loaderRuns = [p \in Procs |-> 0]
    /\ prior = [p \in Procs |-> "none"]

\* a fresh working directory on the first day
Init ==
    /\ clock = FirstDay
    /\ folderExists = FALSE
    /\ logExists = FALSE
    /\ logText = << >>
    /\ fileExists = [f \in FilePaths |-> FALSE]
    /\ fileData = [f \in FilePaths |-> << >>]
    /\ InitRun
    /\ ended = [t \in Labels |-> "none"]
    /\ lastWritten = [f \in FilePaths |-> << >>]
    /\ downloads = [t \in Labels |-> 0]

\* a call for day t ends: "returned" outranks "raised"
EndCall(t, how) ==
    ended' = [ended EXCEPT ![t] = IF how = "returned" \/ @ = "returned"
                                   THEN "returned" ELSE "raised"]

\* lines 17-22 and the call of line 38
Start(p) ==
    /\ pc[p] = "idle"
    /\ folderExists' = TRUE
    /\ today' = [today EXCEPT ![p] = strftime(clock)]
    /\ prior' = [prior EXCEPT ![p] = ended[strftime(clock)]]
    /\ fetcherRuns' = [fetcherRuns EXCEPT ![p] = @ + 1]
    /\ pc' = [pc EXCEPT ![p] = "check"]
    /\ UNCHANGED <<clock, logExists, logText, fileExists, fileData, r, df,
                   selected, figure, gets, loaderRuns, ended, lastWritten,
                   downloads>>

\* lines 26-29
CheckLog(p) ==
    /\ pc[p] = "check"
    /\ IF AlreadyDownloaded(logExists, logText, today[p])
       THEN /\ pc' = [pc EXCEPT ![p] = "load"]
            /\ EndCall(today[p], "returned")
       ELSE /\ pc' = [pc EXCEPT ![p] = "get"]
            /\ UNCHANGED ended
    /\ UNCHANGED <<clock, fs, today, r, df, selected, figure, gets,
                   fetcherRuns, loaderRuns, prior, lastWritten, downloads>>

\* lines 31-32
Get(p, response) ==
    /\ pc[p] = "get"
    /\ gets' = [gets EXCEPT ![p] = @ + 1]
    /\ IF raise_for_status(response.status)
       THEN /\ pc' = [pc EXCEPT ![p] = "fetch_failed"]
            /\ EndCall(today[p], "raised")
            /\ UNCHANGED r
       ELSE /\ pc' = [pc EXCEPT ![p] = "open"]
            /\ r' = [r EXCEPT ![p] = response]
            /\ UNCHANGED ended
    /\ UNCHANGED <<clock, fs, today, df, selected, figure, fetcherRuns,
                   loaderRuns, prior, lastWritten, downloads>>

\* line 33: open(filepath, "wb") creates the file or truncates it
OpenFile(p) ==
    /\ pc[p] = "open"
    /\ fileExists' = [fileExists EXCEPT ![filepath(today[p])] = TRUE]
    /\ fileData' = [fileData EXCEPT ![filepath(today[p])] = << >>]
    /\ pc' = [pc EXCEPT ![p] = "write"]
    /\ UNCHANGED <<clock, folderExists, logExists, logText, today, r, df,
                   selected, figure, hist>>

\* line 34 and the close of the with block: the body goes out in one write
WriteFile(p) ==
    /\ pc[p] = "write"
    /\ fileData' = [fileData EXCEPT ![filepath(today[p])] =
                        WriteAtStart(@, r[p].content)]
    /\ lastWritten' = [lastWritten EXCEPT ![filepath(today[p])] = r[p].content]
    /\ pc' = [pc EXCEPT ![p] = "append"]
    /\ UNCHANGED <<clock, folderExists, logExists, logText, fileExists, today,
                   r, df, selected, figure, gets, fetcherRuns, loaderRuns,
                   prior, ended, downloads>>

\* lines 35-36, and the return
AppendLog(p) ==
    /\ pc[p] = "append"
    /\ logExists' = TRUE
    /\ logText' = LogAppend(logText, LogLine(today[p]))
    /\ downloads' = [downloads EXCEPT ![today[p]] = @ + 1]
    /\ EndCall(today[p], "returned")
    /\ r' = [r EXCEPT ![p] = NoResponse]
    /\ pc' = [pc EXCEPT ![p] = "load"]
    /\ UNCHANGED <<clock, folderExists, fileExists, fileData, today, df,
                   selected, figure, gets, fetcherRuns, loaderRuns, prior,
                   lastWritten>>

\* lines 41-44: read_csv raises when the file is missing or holds nothing
Load(p) ==
    /\ pc[p] = "load"
    /\ loaderRuns' = [loaderRuns EXCEPT ![p] = @ + 1]
    /\ IF fileExists[filepath(today[p])] /\ fileData[filepath(today[p])] # << >>
       THEN /\ df' = [df EXCEPT ![p] = load_frame(fileData[filepath(today[p])])]
            /\ pc' = [pc EXCEPT ![p] = "serving"]
       ELSE /\ pc' = [pc EXCEPT ![p] = "load_failed"]
            /\ UNCHANGED df
    /\ UNCHANGED <<clock, fs, today, r, selected, figure, gets, fetcherRuns,
                   prior, ended, lastWritten, downloads>>

\* a callback that reads the cache file again on every event
CallbackReloading(p, value) ==
    /\ pc[p] = "serving"
    /\ loaderRuns[p] < 2
    /\ selected' = [selected EXCEPT ![p] = value]
    /\ df' = [df EXCEPT ![p] = load_frame(fileData[filepath(today[p])])]
    /\ loaderRuns' = [loaderRuns EXCEPT ![p] = @ + 1]
    /\ figure' = [figure EXCEPT ![p] = update_chart(df'[p], value)]
    /\ UNCHANGED <<clock, fs, pc, today, r, gets, fetcherRuns, prior, ended,
                   lastWritten, downloads>>
\* the callback of lines 72-139, fired with the selector's value
Callback(p, value) ==
    /\ pc[p] = "serving"
    /\ selected' = [selected EXCEPT ![p] = value]
    /\ figure' = [figure EXCEPT ![p] = update_chart(df[p], value)]
    /\ UNCHANGED <<clock, fs, pc, today, r, df, gets, fetcherRuns, loaderRuns,
                   prior, ended, lastWritten, downloads>>

\* the run ends (the exception of a failed start-up, or the server is
\* stopped); the slot is free for the next run of the script
Exit(p) ==
    /\ pc[p] \in {"fetch_failed", "load_failed", "serving"}
    /\ pc' = [pc EXCEPT ![p] = "idle"]
    /\ today' = [today EXCEPT ![p] = NoDay]
    /\ r' = [r EXCEPT ![p] = NoResponse]
    /\ df' = [df EXCEPT ![p] = << >>]
    /\ selected' = [selected EXCEPT ![p] = << >>]
    /\ figure' = [figure EXCEPT ![p] = NoFigure]
    /\ gets' = [gets EXCEPT ![p] = 0]
    /\ fetcherRuns' = [fetcherRuns EXCEPT ![p] = 0]
    /\ loaderRuns' = [loaderRuns EXCEPT ![p] = 0]
    /\ prior' = [prior EXCEPT ![p] = "none"]
    /\ UNCHANGED <<clock, fs, ended, lastWritten, downloads>>

\* midnight
Tick ==
    /\ clock + 1 \in Days
    /\ clock' = clock + 1
    /\ UNCHANGED <<fs, pc, today, r, df, selected, figure, hist>>

Next ==
    \/ \E p \in Procs : Start(p)
    \/ \E p \in Procs : CheckLog(p)
    \/ \E p \in Procs : \E response \in Responses : Get(p, response)
    \/ \E p \in Procs : OpenFile(p)
    \/ \E p \in Procs : WriteFile(p)
    \/ \E p \in Procs : AppendLog(p)
    \/ \E p \in Procs : Load(p)
    \/ \E p \in Procs : \E value \in DropdownValues(df[p]) : Callback(p, value)
    \/ \E p \in Procs : Exit(p)
    \/ Tick

Spec == Init /\ [][Next]_vars

\* ------------------------------------------- the renderer on any data set
\* a CSV file: at most MaxRows rows, one row per location and date
Datasets ==
    {d \in UNION {[1..n -> RawRows] : n \in 0..MaxRows} :
        \A i, j \in 1..Len(d) :
            i # j => d[i].location # d[j].location \/ d[i].date # d[j].date}

\* run 1 has downloaded the body csv on the first day, loaded it and serves
InitRender ==
    \E csv \in Datasets :
        LET t == strftime(FirstDay) IN
        /\ clock = FirstDay
        /\ folderExists = TRUE
        /\ logExists = TRUE
        /\ logText = LogLine(t)
        /\ fileExists = [f \in FilePaths |-> f = filepath(t)]
        /\ fileData = [f \in FilePaths |-> IF f = filepath(t) THEN csv ELSE << >>]
        /\ pc = [p \in Procs |-> IF p = 1 THEN "serving" ELSE "idle"]
        /\ today = [p \in Procs |-> IF p = 1 THEN t ELSE NoDay]
        /\ r = [p \in Procs |-> NoResponse]
        /\ df = [p \in Procs |-> IF p = 1 THEN load_frame(csv) ELSE << >>]
        /\ selected = [p \in Procs |-> << >>]
        /\ figure = [p \in Procs |-> NoFigure]
        /\ gets = [p \in Procs |-> IF p = 1 THEN 1 ELSE 0]
        /\ fetcherRuns = [p \in Procs |-> IF p = 1 THEN 1 ELSE 0]
        /\ loaderRuns = [p \in Procs |-> IF p = 1 THEN 1 ELSE 0]
        /\ prior = [p \in Procs |-> "none"]
        /\ ended = [l \in Labels |-> IF l = t THEN "returned" ELSE "none"]
        /\ lastWritten = [f \in FilePaths |-> IF f = filepath(t) THEN csv ELSE << >>]
        /\ downloads = [l \in Labels |-> IF l = t THEN 1 ELSE 0]

\* callback requests with any list of names
NextRender == \E p \in Procs : \E value \in Selections : Callback(p, value)

SpecRender == InitRender /\ [][NextRender]_vars

\* ================================================================ claims
Fetching(p) == pc[p] \in {"check", "get", "open", "write", "append"}
Drawn(p) == pc[p] = "serving" /\ figure[p] # NoFigure

\* C1 as claimed: a call of download_if_needed that begins after another
\* call for the same day has ended, however that call ended, issues no GET.
C1_SecondCallNeverGets ==
    \A p \in Procs : prior[p] # "none" => gets[p] = 0

\* C1 amended: a call of download_if_needed that begins after another call
\* for the same day has returned (fast path or completed download) issues
\* no GET.
C1_SecondCallAfterReturnNoGet ==
    \A p \in Procs : prior[p] = "returned" => gets[p] = 0

\* the second call has come back from download_if_needed without a request
C1_Witness ==
    \E p \in Procs :
        /\ prior[p] = "returned"
        /\ pc[p] \in {"load", "serving"}
        /\ gets[p] = 0
        /\ downloads[today[p]] = 1

\* C2: a run that has taken the fast path (today's label found in the log,
\* no request made) and is about to load finds today's cache file present
\* and holding exactly one complete response body.
C2_FastPathFileComplete ==
    \A p \in Procs :
        (pc[p] = "load" /\ gets[p] = 0) =>
            /\ fileExists[filepath(today[p])]
            /\ fileData[filepath(today[p])] \in Bodies

\* a run whose fetch failed has loaded nothing and serves nothing
C3_FailedRunIdle ==
    \A p \in Procs :
        pc[p] = "fetch_failed" =>
            /\ loaderRuns[p] = 0
            /\ df[p] = << >>
            /\ figure[p] = NoFigure
            /\ r[p] = NoResponse

\* what a step may do to the log and the cache files
C3_FailedStep ==
    /\ \A p \in Procs :
          (pc[p] = "get" /\ pc'[p] = "fetch_failed") =>
              UNCHANGED <<logExists, logText, fileExists, fileData>>
    /\ \A p \in Procs :
          pc[p] = "fetch_failed" => pc'[p] \in {"fetch_failed", "idle"}
    /\ (<<logExists, logText>>' # <<logExists, logText>>) =>
          \E p \in Procs :
              pc[p] = "append" /\ pc'[p] = "load" /\ r[p].status = 200
    /\ (<<fileExists, fileData>>' # <<fileExists, fileData>>) =>
          \E p \in Procs :
              pc[p] \in {"open", "write"} /\ pc'[p] # pc[p] /\ r[p].status = 200

\* C3: a run whose fetch got a 4xx/5xx response has loaded nothing and
\* serves nothing; the step that fails leaves the log and the cache files
\* as they are and the run can only exit; the log and the cache files
\* change only in a step of a run that holds a 200 response.
C3_FetchErrorAborts == [] C3_FailedRunIdle /\ [][C3_FailedStep]_vars

\* a run has failed its fetch on a day whose file another run had written
C3_Witness ==
    \E p \in Procs :
        /\ pc[p] = "fetch_failed"
        /\ gets[p] = 1
        /\ fileExists[filepath(today[p])]
        /\ ~Contains(logText, today[p])

\* what one step may do to the cache files and the log
C8_Frame ==
    /\ \A f \in FilePaths :
          /\ fileExists[f] => fileExists'[f]
          /\ (fileExists'[f] # fileExists[f] \/ fileData'[f] # fileData[f]) =>
                \E p \in Procs :
                    /\ pc[p] \in {"open", "write"}
                    /\ pc'[p] # pc[p]
                    /\ filepath(today[p]) = f
    /\ logExists => logExists'
    /\ IsPrefix(logText, logText')

\* C8: in every step a cache file that exists keeps existing, a cache file
\* changes only in a step of a run whose today names it, and the log keeps
\* every character it had, in order, at its start.
C8_PriorDaysUntouched == [][C8_Frame]_vars

\* a run of the second day has downloaded while the first day's file and
\* log line are in place
C8_Witness ==
    \E p \in Procs :
        /\ today[p] = strftime(FirstDay + 1)
        /\ pc[p] = "load"
        /\ gets[p] = 1
        /\ fileData[filepath(strftime(FirstDay))] \in Bodies
        /\ fileData[filepath(today[p])] \in Bodies
        /\ IsPrefix(LogLine(strftime(FirstDay)), logText)
        /\ Contains(logText, LogLine(today[p]))

\* C9: once no run is inside download_if_needed for a day, that day's cache
\* file holds exactly the bytes of the latest write to it, and the log holds
\* one line for the day per run that downloaded.
C9_LastWriterWins ==
    \A t \in Labels :
        (\A p \in Procs : ~(Fetching(p) /\ today[p] = t)) =>
            /\ fileExists[filepath(t)] =>
                  fileData[filepath(t)] = lastWritten[filepath(t)]
            /\ Occurrences(logText, LogLine(t)) = downloads[t]

\* the order and the counts of the start-up steps of a run
C10_Order ==
    \A p \in Procs :
        /\ fetcherRuns[p] <= 1
        /\ loaderRuns[p] <= 1
        /\ loaderRuns[p] >= 1 =>
              (pc[p] \in {"serving", "load_failed"} /\ fetcherRuns[p] = 1)
        /\ figure[p] # NoFigure =>
              (pc[p] = "serving" /\ loaderRuns[p] = 1 /\ fetcherRuns[p] = 1)

\* what a step may do to a run that serves
C10_Serving ==
    \A p \in Procs :
        pc[p] = "serving" =>
            /\ pc'[p] \in {"serving", "idle"}
            /\ pc'[p] = "serving" =>
                  /\ df'[p] = df[p]
                  /\ fetcherRuns'[p] = fetcherRuns[p]
                  /\ loaderRuns'[p] = loaderRuns[p]
                  /\ gets'[p] = gets[p]
            /\ (pc'[p] = "serving" /\ <<selected[p], figure[p]>>' # <<selected[p], figure[p]>>)
                  => UNCHANGED <<fs, df>>

\* C10: download_if_needed and the load each run at most once per run of
\* the script, the load begins only after download_if_needed has returned,
\* a figure is served only after the load; a serving run stays serving
\* until it exits, and no callback changes the frame, the log, the cache
\* files or the counts of Fetcher and Loader runs.
C10_StartupOnce == [] C10_Order /\ [][C10_Serving]_vars

\* a run serves a drawn chart after a second callback
C10_Witness ==
    \E p \in Procs :
        /\ pc[p] = "serving"
        /\ figure[p].layout = "dark"
        /\ Len(figure[p].traces) >= 2
        /\ loaderRuns[p] = 1
        /\ fetcherRuns[p] = 1

\* ------------------------------------------------- claims on the renderer
LinesOf(fig) == SelectSeq(fig.traces, LAMBDA t : t.mode = "lines")
LineNames(fig) == [i \in 1..Len(LinesOf(fig)) |-> LinesOf(fig)[i].name[1]]
AnnotationsFor(fig, c) ==
    SelectSeq(fig.annotations, LAMBDA a : a.text = <<"Reporting stopped for ", c>>)
\* positions, in ascending date order, of the rows of c whose first
\* difference is strictly positive
Increases(frame, c) ==
    {i \in 1..Len(country_df(frame, c)) : positive_delta(country_df(frame, c)[i])}
LastIncrease(frame, c) ==
    country_df(frame, c)[CHOOSE i \in Increases(frame, c) :
                            \A j \in Increases(frame, c) : j <= i]
\* the trace that follows the line trace of c
AfterLine(fig, c) ==
    LET k == CHOOSE i \in 1..Len(fig.traces) :
                 fig.traces[i].mode = "lines" /\ fig.traces[i].name = <<c>>
    IN  IF k < Len(fig.traces) THEN fig.traces[k + 1] ELSE fig.traces[k]

\* C4: in a chart drawn without error, every selected country that has a
\* row with a strictly positive first difference has exactly one annotation,
\* and the trace after its line is a marker, both at the date and value of
\* the last such row in date order.
C4_LastIncreaseAnchored ==
    \A p \in Procs :
        (Drawn(p) /\ ~figure[p].error) =>
            \A k \in 1..Len(selected[p]) :
                LET c == selected[p][k] IN
                Increases(df[p], c) # {} =>
                    /\ Len(AnnotationsFor(figure[p], c)) = 1
                    /\ AnnotationsFor(figure[p], c)[1].x = LastIncrease(df[p], c).date
                    /\ AnnotationsFor(figure[p], c)[1].y = LastIncrease(df[p], c).total_cases
                    /\ AfterLine(figure[p], c).mode = "markers"
                    /\ AfterLine(figure[p], c).x = <<LastIncrease(df[p], c).date>>
                    /\ AfterLine(figure[p], c).y = <<LastIncrease(df[p], c).total_cases>>

\* C5: whatever the loaded frame, the empty frame included, the answer to a
\* callback with the empty selection has no trace and no annotation, and the
\* callback does not raise.
C5_EmptySelectionEmptyChart ==
    \A p \in Procs :
        (Drawn(p) /\ selected[p] = << >>) =>
            /\ figure[p].traces = << >>
            /\ figure[p].annotations = << >>
            /\ ~figure[p].error

\* the empty selection has been answered over a frame that holds rows
C5_Witness ==
    \E p \in Procs :
        /\ Drawn(p)
        /\ selected[p] = << >>
        /\ Len(df[p]) = MaxRows
        /\ figure[p] = go_Figure

\* C6: over a frame that holds rows, a callback does not raise and the chart
\* has no trace named for a selected name that no row of the frame carries.
C6_UnknownNameNoTrace ==
    \A p \in Procs :
        (Drawn(p) /\ df[p] # << >>) =>
            /\ ~figure[p].error
            /\ \A k \in 1..Len(selected[p]) :
                  selected[p][k] \notin countries(df[p]) =>
                      \A i \in 1..Len(figure[p].traces) :
                          figure[p].traces[i].name # <<selected[p][k]>>

\* C7: in a chart drawn without error the names of the line traces, in
\* order, are the selection.
C7_TraceOrderIsSelectionOrder ==
    \A p \in Procs :
        (Drawn(p) /\ ~figure[p].error) => LineNames(figure[p]) = selected[p]

\* US was selected before A, both have rows, and a marker trace lies between
\* the two lines
C7_Witness ==
    \E p \in Procs :
        /\ Drawn(p)
        /\ selected[p] = <<"US", "A">>
        /\ countries(df[p]) = {"A", "US"}
        /\ Len(figure[p].traces) = 3
        /\ figure[p].traces[1].name = <<"US">>
        /\ figure[p].traces[2].mode = "markers"
        /\ figure[p].traces[3].name = <<"A">>
====
